---- MODULE Spec2Model ----
(***************************************************************************)
(* BulkReName (src/src/main.rs): the rename engine of RenamerApp.          *)
(*                                                                         *)
(* A file name is a sequence of one-character strings, a path is a record  *)
(* [dir, name], the disk is a function from the paths that exist to the    *)
(* content stored there.  Every handler of the application (the buttons of *)
(* eframe::App::update) is one action; execute_rename and undo are         *)
(* computed rename by rename, as the code performs them.                   *)
(***************************************************************************)
EXTENDS Integers, Sequences, FiniteSets, TLC

VARIABLES
    fs,            \* the disk: [existing paths -> content]
    files,         \* RenamerApp.files (the paths of the FileEntry list)
    selected_idx,  \* RenamerApp.selected_idx (NoneIdx for None)
    blocks,        \* RenamerApp.blocks
    collision,     \* RenamerApp.collision
    use_mtime_for_date,  \* RenamerApp.use_mtime_for_date
    last_actions,  \* RenamerApp.last_actions: stack of origin -> final maps
    messages,      \* RenamerApp.messages: those the latest handler pushed
    clock,         \* the system clock, in ReName presses made so far
    call           \* history: what the latest handler did (pre-state, renames)

vars == <<fs, files, selected_idx, blocks, collision, use_mtime_for_date,
          last_actions, messages, clock, call>>

----------------------------------------------------------------------------
(* Bounds of the model.                                                    *)

\* longest file list the add dialog may build
MaxFiles == 2

\* ReName presses in one behaviour (the clock stops the model there)
MaxRuns == 2

\* rename system calls that may fail for an outside reason in one handler
MaxFails == 1

\* numbered candidates of a name that may be on the disk
MaxProbe == 3

\* bits of the integers that stand for i64 (64 in the program)
IntBits == 8

\* ticks the clock may advance between two of its readings in one handler
MaxTick == 1

\* longest file list of a batch that is drawn rather than built by the dialog
MaxBatch == 3

----------------------------------------------------------------------------
(* Option<T>, strings and std::path::Path.                                 *)

None == [some |-> FALSE, v |-> <<>>]

Some(x) == [some |-> TRUE, v |-> x]

\* selected_idx: None
NoneIdx == -1

DigitChars == <<"0", "1", "2", "3", "4", "5", "6", "7", "8", "9">>

\* format!("{}", n) of a non-negative integer
RECURSIVE Dec(_)
Dec(n) == IF n < 10 THEN <<DigitChars[n + 1]>>
          ELSE Dec(n \div 10) \o <<DigitChars[(n % 10) + 1]>>

\* "0" repeated n times
RECURSIVE Zeros(_)
Zeros(n) == IF n <= 0 THEN <<>> ELSE <<"0">> \o Zeros(n - 1)

\* index of the last "." of a name, 0 when there is none
LastDot(name) ==
    LET dots == {i \in 1..Len(name) : name[i] = "."}
    IN  IF dots = {} THEN 0 ELSE CHOOSE i \in dots : \A j \in dots : j <= i

\* std: rsplit_file_at_dot(file) -> (before, after)
rsplit_file_at_dot(name) ==
    IF name = <<".", ".">> THEN [before |-> Some(name), after |-> None]
    ELSE LET i == LastDot(name)
         IN  IF i = 0 THEN [before |-> None, after |-> Some(name)]
             ELSE IF i = 1 THEN [before |-> Some(name), after |-> None]
             ELSE [before |-> Some(SubSeq(name, 1, i - 1)),
                   after  |-> Some(SubSeq(name, i + 1, Len(name)))]

\* Path::file_stem: before.or(after)
file_stem(name) ==
    LET r == rsplit_file_at_dot(name)
    IN  IF r.before.some THEN r.before ELSE r.after

\* Path::extension: before.and(after)
extension(name) ==
    LET r == rsplit_file_at_dot(name)
    IN  IF r.before.some THEN r.after ELSE None

\* PathBuf::set_file_name: the directory is kept, the last component replaced
set_file_name(p, tname) == [dir |-> p.dir, name |-> tname]

\* PathBuf::set_extension with a non-empty extension
set_extension(p, ext) ==
    [dir |-> p.dir, name |-> file_stem(p.name).v \o <<".">> \o ext]

\* Path::exists
Exists(disk, p) == p \in DOMAIN disk

----------------------------------------------------------------------------
(* Blocks and target names.                                                *)

Literal(s) == [type |-> "Literal", text |-> s, width |-> 0, start |-> 0, step |-> 0]

Number(w, s, g) == [type |-> "Number", text |-> <<>>, width |-> w, start |-> s, step |-> g]

\* Block::Date { format }: the format is kept in text
Date(f) == [type |-> "Date", text |-> f, width |-> 0, start |-> 0, step |-> 0]

Original == [type |-> "Original", text |-> <<>>, width |-> 0, start |-> 0, step |-> 0]

\* RenamerApp::default().blocks
DefaultBlocks == <<Number(4, 1, 1), Literal(<<"_">>), Original>>

\* i64, scaled down to IntBits bits: the least and the greatest value
IntMin == -(2 ^ (IntBits - 1))

IntMax == 2 ^ (IntBits - 1) - 1

\* two's complement wrap-around of an arithmetic result
Wrap(x) == ((x - IntMin) % (2 ^ IntBits)) + IntMin

\* start + (idx as i64) * step leaves i64 at the product or at the sum: a
\* build with overflow checks panics there, a build without them wraps
Overflows(idx, start, step) ==
    \/ idx * step < IntMin
    \/ idx * step > IntMax
    \/ start + idx * step < IntMin
    \/ start + idx * step > IntMax

\* format!("{:0width$}", val): sign-aware zero padding
ZeroPad(val, width) ==
    IF val < 0 THEN <<"-">> \o Zeros(width - 1 - Len(Dec(-val))) \o Dec(-val)
    ELSE Zeros(width - Len(Dec(val))) \o Dec(val)

\* format_number where it returns (no overflow check, or no overflow)
format_number(idx, width, start, step) ==
    LET val == Wrap(start + Wrap(idx * step))
        s   == IF val < 0 THEN <<"-">> \o Dec(-val) ELSE Dec(val)
    IN  IF width > 0 /\ Len(s) < width THEN ZeroPad(val, width) ELSE s

\* a number on two digits
TwoDigits(n) == ZeroPad(n, 2)

\* one strftime specifier of chrono, for the local time `now` counted in
\* seconds from 1970-01-01 00:00:00 and lying in January 1970
Specifier(c, now) ==
    CASE c = "S" -> TwoDigits(now % 60)
      [] c = "M" -> TwoDigits((now \div 60) % 60)
      [] c = "H" -> TwoDigits((now \div 3600) % 24)
      [] c = "d" -> TwoDigits(1 + (now \div 86400))
      [] c = "m" -> <<"0", "1">>
      [] c = "Y" -> <<"1", "9", "7", "0">>
      [] c = "%" -> <<"%">>

\* now.format(format).to_string(), from character k of the format on
RECURSIVE FormatDate(_, _, _)
FormatDate(format, k, now) ==
    IF k > Len(format) THEN <<>>
    ELSE IF format[k] = "%" /\ k < Len(format)
    THEN Specifier(format[k + 1], now) \o FormatDate(format, k + 2, now)
    ELSE <<format[k]>> \o FormatDate(format, k + 1, now)

\* one block of generate_targets' inner loop, for the file at 0-based idx
ExpandBlock(b, idx, stem, now) ==
    CASE b.type = "Literal"  -> b.text
      [] b.type = "Number"   -> format_number(idx, b.width, b.start, b.step)
      [] b.type = "Date"     -> FormatDate(b.text, 1, now)
      [] b.type = "Original" -> stem

\* the vector parts of the file at 1-based position i, whose clock reading
\* (let now = Local::now()) is now
Parts(fl, bs, i, now) ==
    [k \in 1..Len(bs) |->
        ExpandBlock(bs[k], i - 1,
                    IF file_stem(fl[i].name).some THEN file_stem(fl[i].name).v
                    ELSE <<>>,
                    now)]

\* parts.join(""), from part k on
RECURSIVE JoinParts(_, _)
JoinParts(parts, k) ==
    IF k > Len(parts) THEN <<>> ELSE parts[k] \o JoinParts(parts, k + 1)

\* (mutation of TargetName: the extension is not put back)
TargetName_NoExtension(fl, bs, i, now) == JoinParts(Parts(fl, bs, i, now), 1)

\* the target name of the file at 1-based position i
TargetName(fl, bs, i, now) ==
    LET ext  == extension(fl[i].name)
        base == JoinParts(Parts(fl, bs, i, now), 1)
    IN  IF ext.some THEN base \o <<".">> \o ext.v ELSE base

\* (mutation of generate_targets: the loop starts at the second file)
generate_targets_SkipsFirst(fl, bs, nows) ==
    [i \in 1..(Len(fl) - 1) |-> TargetName(fl, bs, i + 1, nows[i + 1])]

\* generate_targets where it returns; nows[i] is the clock reading made for
\* the file at position i
generate_targets(fl, bs, nows) ==
    [i \in 1..Len(fl) |-> TargetName(fl, bs, i, nows[i])]

\* generate_targets panics: some Number block overflows for some file, in a
\* build with overflow checks
Panics(fl, bs) ==
    \E i \in 1..Len(fl), k \in 1..Len(bs) :
        /\ bs[k].type = "Number"
        /\ Overflows(i - 1, bs[k].start, bs[k].step)

----------------------------------------------------------------------------
(* std::fs::rename and the record of one handler call.                     *)

\* the disk after src has been moved to dst (a file at dst is replaced)
Move(disk, src, dst) ==
    IF src = dst THEN disk
    ELSE [q \in (DOMAIN disk \ {src}) \cup {dst} |->
             IF q = dst THEN disk[src] ELSE disk[q]]

\* the state threaded through a handler: the disk, the number of rename calls
\* made so far, the renames attempted (history) and the messages pushed
StartCall(disk) == [fs |-> disk, n |-> 0, log |-> <<>>, msgs |-> <<>>]

\* fs::rename(src, dst): fails when src is missing or when the system refuses
\* the call (the calls numbered in fail); kind names the loop that made it
TryRename(st, kind, src, dst, fail) ==
    LET n  == st.n + 1
        ok == Exists(st.fs, src) /\ n \notin fail
    IN  [st EXCEPT !.fs  = IF ok THEN Move(st.fs, src, dst) ELSE st.fs,
                   !.n   = n,
                   !.log = Append(st.log, [kind |-> kind, src |-> src,
                                           dst |-> dst, ok |-> ok])]

\* self.messages.push(..)
PushMsg(st, m) == [st EXCEPT !.msgs = Append(st.msgs, m)]

\* Ok(()) of the rename made last
LastOk(st) == st.log[Len(st.log)].ok

----------------------------------------------------------------------------
(* execute_rename: collision resolution and the robust map.                *)

\* (mutation of append_suffix_before_ext: the suffix goes after the extension)
append_suffix_before_ext_AfterExt(p, suffix) ==
    [dir |-> p.dir, name |-> p.name \o suffix]

append_suffix_before_ext(p, suffix) ==
    LET stemO    == file_stem(p.name)
        stem     == IF stemO.some THEN stemO.v ELSE <<>>
        ext      == extension(p.name)
        new_stem == stem \o suffix
    IN  IF ext.some THEN [dir |-> p.dir, name |-> new_stem \o <<".">> \o ext.v]
        ELSE [dir |-> p.dir, name |-> new_stem]

\* format!(" ({})", n)
SuffixText(n) == <<" ", "(">> \o Dec(n) \o <<")">>

\* the loop of CollisionStrategy::Suffix, entered with n = 1
RECURSIVE SuffixProbe(_, _, _)
SuffixProbe(disk, desired, n) ==
    LET candidate == append_suffix_before_ext(desired, SuffixText(n))
    IN  IF ~Exists(disk, candidate) THEN candidate
        ELSE SuffixProbe(disk, desired, n + 1)

\* (mutation of Resolve: Skip lets the desired path stand)
Resolve_SkipIgnored(disk, strategy, orig, desired) ==
    IF Exists(disk, desired) /\ strategy = "Suffix"
    THEN SuffixProbe(disk, desired, 1)
    ELSE desired

\* the value of `desired` after the match on self.collision
Resolve(disk, strategy, orig, desired) ==
    IF Exists(disk, desired)
    THEN CASE strategy = "Overwrite" -> desired
           [] strategy = "Skip"      -> orig
           [] strategy = "Suffix"    -> SuffixProbe(disk, desired, 1)
    ELSE desired

\* (mutation of TmpPath: the index of the entry is left out of the name)
TmpPath_NoIndex(orig, nanos, i) ==
    set_extension([dir |-> orig.dir,
                   name |-> <<".", "t", "m", "p", "-">> \o Dec(nanos)],
                  <<"t", "m", "p">>)

\* dir.join(format!(".tmp-{}-{}", nanos, i)) with set_extension("tmp")
TmpPath(orig, nanos, i) ==
    set_extension([dir |-> orig.dir,
                   name |-> <<".", "t", "m", "p", "-">> \o Dec(nanos)
                            \o <<"-">> \o Dec(i)],
                  <<"t", "m", "p">>)

\* final_paths: every file's path with its target as the file name
\* (self.files.iter().zip(targets.iter()))
FinalPaths(fl, targets) ==
    [i \in 1..(IF Len(fl) <= Len(targets) THEN Len(fl) ELSE Len(targets)) |->
        set_file_name(fl[i], targets[i])]

\* (mutation of RobustMap: the entries whose final path is their origin stay)
RECURSIVE RobustMap_KeepsNoOps(_, _, _, _, _, _)
RobustMap_KeepsNoOps(fl, final_paths, disk, strategy, nanos, i) ==
    IF i > Len(fl) THEN <<>>
    ELSE <<[orig |-> fl[i], tmp |-> TmpPath(fl[i], nanos[i], i - 1),
            final |-> Resolve(disk, strategy, fl[i], final_paths[i])]>>
         \o RobustMap_KeepsNoOps(fl, final_paths, disk, strategy, nanos, i + 1)

\* (mutation of RobustMap: the no-op test is made on the desired path as it
\* was before the collision match)
RECURSIVE RobustMap_FiltersUnresolved(_, _, _, _, _, _)
RobustMap_FiltersUnresolved(fl, final_paths, disk, strategy, nanos, i) ==
    IF i > Len(fl) THEN <<>>
    ELSE (IF final_paths[i] = fl[i] THEN <<>>
          ELSE <<[orig |-> fl[i], tmp |-> TmpPath(fl[i], nanos[i], i - 1),
                  final |-> Resolve(disk, strategy, fl[i], final_paths[i])]>>)
         \o RobustMap_FiltersUnresolved(fl, final_paths, disk, strategy, nanos,
                                        i + 1)

\* the robust_map loop from the file at 1-based position i on; nanos[i] is
\* the clock reading made for that file
RECURSIVE RobustMap(_, _, _, _, _, _)
RobustMap(fl, final_paths, disk, strategy, nanos, i) ==
    IF i > Len(fl) THEN <<>>
    ELSE LET orig    == fl[i]
             desired == Resolve(disk, strategy, orig, final_paths[i])
             rest    == RobustMap(fl, final_paths, disk, strategy, nanos, i + 1)
         IN  IF desired = orig THEN rest
             ELSE <<[orig |-> orig, tmp |-> TmpPath(orig, nanos[i], i - 1),
                     final |-> desired]>> \o rest

----------------------------------------------------------------------------
(* execute_rename: Step A, Step B and the undo map.                        *)

\* (mutation of RollbackStaged: the staged entries are left at their temps)
RollbackStaged_Forgotten(st, temps_created, j, fail) == st

\* Step A's rollback: for (t, o) in temps_created.iter().rev(), from entry j
RECURSIVE RollbackStaged(_, _, _, _)
RollbackStaged(st, temps_created, j, fail) ==
    IF j = 0 THEN st
    ELSE RollbackStaged(
             TryRename(st, "rollback", temps_created[j].tmp,
                       temps_created[j].orig, fail),
             temps_created, j - 1, fail)

\* Step A from entry k on: orig -> tmp, rolled back at the first failure
RECURSIVE StepA(_, _, _, _)
StepA(st, robust_map, k, fail) ==
    IF k > Len(robust_map) THEN [st |-> st, ok |-> TRUE]
    ELSE LET st1 == TryRename(st, "stage", robust_map[k].orig,
                              robust_map[k].tmp, fail)
         IN  IF LastOk(st1) THEN StepA(st1, robust_map, k + 1, fail)
             ELSE [st |-> PushMsg(
                              RollbackStaged(PushMsg(st1, "Failed to move"),
                                             SubSeq(robust_map, 1, k - 1),
                                             k - 1, fail),
                              "Performed rollback after failure."),
                   ok |-> FALSE]

\* let final_mappings: HashMap<PathBuf, PathBuf> = HashMap::new(), which
\* nothing is ever inserted into
final_mappings == <<>>

\* Step B's rollback, first loop: for (t, o) in &temps_created, from entry j
RECURSIVE RollbackTemps(_, _, _, _)
RollbackTemps(st, temps_created, j, fail) ==
    IF j > Len(temps_created) THEN st
    ELSE RollbackTemps(
             IF Exists(st.fs, temps_created[j].tmp)
             THEN TryRename(st, "rollback", temps_created[j].tmp,
                            temps_created[j].orig, fail)
             ELSE st,
             temps_created, j + 1, fail)

\* Step B's rollback, second loop: for (o, f) in &final_mappings, from pair j
RECURSIVE RollbackFinals(_, _, _, _)
RollbackFinals(st, mappings, j, fail) ==
    IF j > Len(mappings) THEN st
    ELSE RollbackFinals(
             IF Exists(st.fs, mappings[j].final)
             THEN TryRename(st, "rollback", mappings[j].final,
                            mappings[j].orig, fail)
             ELSE st,
             mappings, j + 1, fail)

\* Step B from entry k on: tmp -> final, rolled back at the first failure
RECURSIVE StepB(_, _, _, _)
StepB(st, robust_map, k, fail) ==
    IF k > Len(robust_map) THEN [st |-> st, ok |-> TRUE]
    ELSE LET st1 == TryRename(st, "commit", robust_map[k].tmp,
                              robust_map[k].final, fail)
         IN  IF LastOk(st1) THEN StepB(st1, robust_map, k + 1, fail)
             ELSE [st |-> PushMsg(
                              RollbackFinals(
                                  RollbackTemps(
                                      PushMsg(st1, "Failed to move temp"),
                                      robust_map, 1, fail),
                                  final_mappings, 1, fail),
                              "Attempted rollback after partial failure."),
                   ok |-> FALSE]

\* (mutation of UndoMap: the temp path is recorded instead of the final one)
UndoMap_RecordsTemp(robust_map) ==
    [o \in {robust_map[k].orig : k \in 1..Len(robust_map)} |->
        LET ks == {k \in 1..Len(robust_map) : robust_map[k].orig = o}
        IN  robust_map[CHOOSE k \in ks : \A j \in ks : j <= k].tmp]

\* undo_map.insert(orig, final_path) for every entry, in order
UndoMap(robust_map) ==
    [o \in {robust_map[k].orig : k \in 1..Len(robust_map)} |->
        LET ks == {k \in 1..Len(robust_map) : robust_map[k].orig = o}
        IN  robust_map[CHOOSE k \in ks : \A j \in ks : j <= k].final]

\* (mutation of execute_rename: Step B runs although Step A failed)
execute_rename_CommitsAnyway(disk, fl, bs, strategy, nows, nanos, fail) ==
    LET final_paths == FinalPaths(fl, generate_targets(fl, bs, nows))
        robust_map  == RobustMap(fl, final_paths, disk, strategy, nanos, 1)
        a           == StepA(StartCall(disk), robust_map, 1, fail)
        b           == StepB(a.st, robust_map, 1, fail)
    IN  [final_paths |-> final_paths, robust_map |-> robust_map, st |-> b.st,
         outcome |-> IF robust_map = <<>> THEN "Nothing"
                     ELSE IF ~a.ok THEN "RolledBackA"
                     ELSE IF ~b.ok THEN "RolledBackB" ELSE "Committed",
         pushed |-> IF robust_map # <<>> /\ a.ok /\ b.ok
                    THEN Some(UndoMap(robust_map)) ELSE None]

\* what execute_rename hands back: the disk and messages it leaves (st), the
\* outcome, the batch it built and the undo map it pushes (pushed)
Result(final_paths, robust_map, st, outcome, pushed) ==
    [final_paths |-> final_paths, robust_map |-> robust_map, st |-> st,
     outcome |-> outcome, pushed |-> pushed]

\* execute_rename after Step B has ended as b: the undo map is pushed when
\* every temp -> final rename succeeded
AfterStepB(final_paths, robust_map, b) ==
    IF ~b.ok
    THEN Result(final_paths, robust_map, b.st, "RolledBackB", None)
    ELSE Result(final_paths, robust_map,
                PushMsg(b.st, "Rename completed successfully."),
                "Committed", Some(UndoMap(robust_map)))

\* execute_rename after Step A has ended as a: return, or Step B
AfterStepA(final_paths, robust_map, a, fail) ==
    IF ~a.ok
    THEN Result(final_paths, robust_map, a.st, "RolledBackA", None)
    ELSE AfterStepB(final_paths, robust_map, StepB(a.st, robust_map, 1, fail))

\* (mutation of RunBatch: no staging, every entry goes origin -> final)
RunBatch_Unstaged(disk, final_paths, robust_map, fail) ==
    IF robust_map = <<>>
    THEN Result(final_paths, robust_map,
                PushMsg(StartCall(disk), "No files to rename"), "Nothing", None)
    ELSE AfterStepB(final_paths, robust_map,
                    StepB(StartCall(disk),
                          [k \in DOMAIN robust_map |->
                              [robust_map[k] EXCEPT !.tmp = robust_map[k].orig]],
                          1, fail))

\* execute_rename once robust_map is built: the empty check, or Step A
RunBatch(disk, final_paths, robust_map, fail) ==
    IF robust_map = <<>>
    THEN Result(final_paths, robust_map,
                PushMsg(StartCall(disk), "No files to rename"), "Nothing", None)
    ELSE AfterStepA(final_paths, robust_map,
                    StepA(StartCall(disk), robust_map, 1, fail), fail)

\* execute_rename once final_paths is built: the robust_map loop
PlanBatch(disk, fl, final_paths, strategy, nanos, fail) ==
    RunBatch(disk, final_paths,
             RobustMap(fl, final_paths, disk, strategy, nanos, 1), fail)

\* execute_rename once the targets are generated: the length check
WithTargets(disk, fl, targets, strategy, nanos, fail) ==
    IF Len(targets) # Len(fl)
    THEN Result(<<>>, <<>>, StartCall(disk), "Returned", None)
    ELSE PlanBatch(disk, fl, FinalPaths(fl, targets), strategy, nanos, fail)

\* execute_rename on the file list fl
execute_rename(disk, fl, bs, strategy, nows, nanos, fail) ==
    WithTargets(disk, fl, generate_targets(fl, bs, nows), strategy, nanos, fail)

----------------------------------------------------------------------------
(* undo.                                                                   *)

\* (mutation of UndoPairs: the pass ends at the first pair it cannot reverse)
RECURSIVE UndoPairs_StopsAtFailure(_, _, _, _, _)
UndoPairs_StopsAtFailure(st, mapping, order, j, fail) ==
    IF j > Len(order) THEN st
    ELSE IF ~Exists(st.fs, mapping[order[j]])
    THEN PushMsg([st EXCEPT !.log = Append(@,
                     [kind |-> "missing", src |-> mapping[order[j]],
                      dst |-> order[j], ok |-> FALSE])],
                 "Cannot undo, final file missing")
    ELSE LET r == TryRename(st, "undo", mapping[order[j]], order[j], fail)
         IN  IF LastOk(r)
             THEN UndoPairs_StopsAtFailure(r, mapping, order, j + 1, fail)
             ELSE PushMsg(r, "Failed to undo")

\* the for loop of undo over the pairs of mapping, in the order the hash map
\* yields them (order: the origins), from pair j on
RECURSIVE UndoPairs(_, _, _, _, _)
UndoPairs(st, mapping, order, j, fail) ==
    IF j > Len(order) THEN st
    ELSE LET orig       == order[j]
             final_path == mapping[orig]
             st1 == IF Exists(st.fs, final_path)
                    THEN LET r == TryRename(st, "undo", final_path, orig, fail)
                         IN  IF LastOk(r) THEN r
                             ELSE PushMsg(r, "Failed to undo")
                    ELSE PushMsg([st EXCEPT !.log = Append(@,
                                     [kind |-> "missing", src |-> final_path,
                                      dst |-> orig, ok |-> FALSE])],
                                 "Cannot undo, final file missing")
         IN  UndoPairs(st1, mapping, order, j + 1, fail)

\* (mutation of undo: the oldest undo map is dropped, not the newest)
undo_DropsOldest(disk, stack, order, fail) ==
    IF stack # <<>>
    THEN [st |-> PushMsg(UndoPairs(StartCall(disk), stack[Len(stack)],
                                   order, 1, fail),
                         "Undo attempted."),
          stack |-> SubSeq(stack, 2, Len(stack))]
    ELSE [st |-> PushMsg(StartCall(disk), "No actions to undo."),
          stack |-> stack]

\* undo on the stack of undo maps: the disk and messages it leaves and the
\* stack after the pop
undo(disk, stack, order, fail) ==
    IF stack # <<>>
    THEN [st |-> PushMsg(UndoPairs(StartCall(disk), stack[Len(stack)],
                                   order, 1, fail),
                         "Undo attempted."),
          stack |-> SubSeq(stack, 1, Len(stack) - 1)]
    ELSE [st |-> PushMsg(StartCall(disk), "No actions to undo."),
          stack |-> stack]

----------------------------------------------------------------------------
(* The state machine: the handlers of eframe::App::update.                 *)

Path(d, n) == [dir |-> d, name |-> n]

\* the files on the disk when the application starts
InitDisk ==
    (Path("p", <<"1", ".", "t">>) :> "A") @@
    (Path("p", <<"3", ".", "t">>) :> "B")

Strategies == {"Overwrite", "Skip", "Suffix"}

\* the block lists of the saved templates
SavedBlocks == {<<Number(0, 1, 1)>>, <<Literal(<<"x">>)>>}

Templates == {DefaultBlocks} \cup SavedBlocks

\* the sets of rename calls (by number) the system refuses in one handler
\* that makes at most n of them
FailSets(n) == {F \in SUBSET (1..n) : Cardinality(F) <= MaxFails}

\* the sequences of 1..n elements of S
SeqsUpTo(S, n) == UNION {[1..m -> S] : m \in 1..n}

\* the orders in which a hash map with the keys S may yield them
Orders(S) ==
    {o \in [1..Cardinality(S) -> S] : \A i, j \in DOMAIN o : o[i] = o[j] => i = j}

\* the history before any handler has run
EmptyCall ==
    [op |-> "ui", fs0 |-> <<>>, stack0 |-> <<>>, strategy |-> "",
     outcome |-> "", nows |-> <<>>, nanos |-> <<>>, parts |-> <<>>,
     targets |-> <<>>, final_paths |-> <<>>, resolved |-> <<>>,
     robust_map |-> <<>>, log |-> <<>>, after_commit |-> FALSE,
     batch |-> <<>>, batch_fs0 |-> <<>>]

\* the history of a handler that renames nothing
NoCall == [EmptyCall EXCEPT !.fs0 = fs, !.stack0 = last_actions]

TypeOK ==
    /\ Len(files) <= MaxFiles
    /\ selected_idx \in {NoneIdx} \cup (0..MaxFiles)
    /\ blocks \in Templates
    /\ collision \in Strategies
    /\ use_mtime_for_date \in BOOLEAN
    /\ clock \in 0..MaxRuns
    /\ Len(last_actions) <= MaxRuns

Init ==
    /\ fs = InitDisk
    /\ files = <<>>
    /\ selected_idx = NoneIdx
    /\ blocks = DefaultBlocks
    /\ collision = "Suffix"
    /\ use_mtime_for_date = TRUE
    /\ last_actions = <<>>
    /\ messages = <<>>
    /\ clock = 0
    /\ call = [EmptyCall EXCEPT !.fs0 = InitDisk]

\* add_files over the paths the file dialog returned
RECURSIVE add_files(_, _, _)
add_files(fl, disk, paths) ==
    IF paths = <<>> THEN fl
    ELSE add_files(IF Exists(disk, Head(paths)) THEN Append(fl, Head(paths))
                   ELSE fl,
                   disk, Tail(paths))

\* "Add files...": the dialog's paths are taken up on the next frame
AddFiles ==
    /\ Len(files) < MaxFiles
    /\ \E paths \in SeqsUpTo(DOMAIN InitDisk, MaxFiles - Len(files)) :
           files' = add_files(files, fs, paths)
    /\ call' = NoCall
    /\ messages' = <<>>
    /\ UNCHANGED <<fs, selected_idx, blocks, collision, use_mtime_for_date,
                   last_actions, clock>>

\* "Clear files"
ClearFiles ==
    /\ files' = <<>>
    /\ selected_idx' = NoneIdx
    /\ call' = NoCall
    /\ messages' = <<>>
    /\ UNCHANGED <<fs, blocks, collision, use_mtime_for_date, last_actions, clock>>

\* files.swap(i, j), 0-based
Swap(fl, i, j) ==
    [k \in DOMAIN fl |-> IF k = i + 1 THEN fl[j + 1]
                         ELSE IF k = j + 1 THEN fl[i + 1] ELSE fl[k]]

\* the list and the selection a method of the file list leaves
Listing(fl, sel) == [files |-> fl, selected_idx |-> sel]

\* (mutation of move_up: the entries are swapped, the selection stays)
move_up_KeepsSelection(fl, sel) ==
    IF sel # NoneIdx /\ sel > 0
    THEN Listing(Swap(fl, sel, sel - 1), sel)
    ELSE Listing(fl, sel)

\* self.move_up()
move_up(fl, sel) ==
    IF sel # NoneIdx /\ sel > 0
    THEN Listing(Swap(fl, sel, sel - 1), sel - 1)
    ELSE Listing(fl, sel)

\* self.move_down()
move_down(fl, sel) ==
    IF sel # NoneIdx /\ sel + 1 < Len(fl)
    THEN Listing(Swap(fl, sel, sel + 1), sel + 1)
    ELSE Listing(fl, sel)

\* self.remove_selected(), sel being None or an index into fl
remove_selected(fl, sel) ==
    IF sel # NoneIdx
    THEN Listing(SubSeq(fl, 1, sel) \o SubSeq(fl, sel + 2, Len(fl)), NoneIdx)
    ELSE Listing(fl, sel)

\* self.files and self.selected_idx as a method left them
Listed(r) ==
    /\ files' = r.files
    /\ selected_idx' = r.selected_idx

\* the "up" button of row i: select it, then move_up
MoveUp ==
    /\ \E i \in 0..(Len(files) - 1) : Listed(move_up(files, i))
    /\ call' = NoCall
    /\ messages' = <<>>
    /\ UNCHANGED <<fs, blocks, collision, use_mtime_for_date, last_actions, clock>>

\* the "down" button of row i: select it, then move_down
MoveDown ==
    /\ \E i \in 0..(Len(files) - 1) : Listed(move_down(files, i))
    /\ call' = NoCall
    /\ messages' = <<>>
    /\ UNCHANGED <<fs, blocks, collision, use_mtime_for_date, last_actions, clock>>

\* the "Del" button of row i: select it, then remove_selected
RemoveSelected ==
    /\ \E i \in 0..(Len(files) - 1) : Listed(remove_selected(files, i))
    /\ call' = NoCall
    /\ messages' = <<>>
    /\ UNCHANGED <<fs, blocks, collision, use_mtime_for_date, last_actions, clock>>

\* the radio buttons of the collision strategy
SetCollision ==
    /\ \E c \in Strategies : collision' = c
    /\ call' = NoCall
    /\ messages' = <<>>
    /\ UNCHANGED <<fs, files, selected_idx, blocks, use_mtime_for_date,
                   last_actions, clock>>

\* the checkbox "Use file mtime for date"
ToggleMtime ==
    /\ use_mtime_for_date' = ~use_mtime_for_date
    /\ call' = NoCall
    /\ messages' = <<>>
    /\ UNCHANGED <<fs, files, selected_idx, blocks, collision, last_actions,
                   clock>>

\* "Apply" of a saved template
ApplyTemplate ==
    /\ \E b \in SavedBlocks, c \in Strategies, u \in BOOLEAN :
          /\ blocks' = b
          /\ collision' = c
          /\ use_mtime_for_date' = u
    /\ call' = NoCall
    /\ messages' = <<>>
    /\ UNCHANGED <<fs, files, selected_idx, last_actions, clock>>

\* the fields of RenamerApp a method of the rename engine is handed (&self)
Self ==
    [files |-> files, blocks |-> blocks, collision |-> collision,
     use_mtime_for_date |-> use_mtime_for_date]

\* reading k (from 0) of the clock in the handler of one press: the clock
\* advances adv ticks from one reading to the next, and by more than a whole
\* handler between two presses
Reading(k, adv) == clock * (2 * MaxBatch + 1) + k * adv

\* let now = Local::now(), read once for each file by generate_targets
Nows(adv) == [i \in 1..Len(files) |-> Reading(i - 1, adv)]

\* SystemTime::now(), read once for each file by the robust_map loop
Nanos(adv) == [i \in 1..Len(files) |-> Reading(Len(files) + i - 1, adv)]

\* the modification time of every file on the disk
Mtime == 0

\* (mutation of NowFor: the flag selects the file's modification time)
NowFor_Mtime(self, i, reading) ==
    IF self.use_mtime_for_date THEN Mtime ELSE reading

\* the timestamp the Date blocks of file i are formatted against: the clock
\* reading, whatever self.use_mtime_for_date
NowFor(self, i, reading) == reading

\* the timestamps of generate_targets, one for each file
NowsFor(self, readings) ==
    [i \in 1..Len(self.files) |-> NowFor(self, i, readings[i])]

\* self.generate_targets()
self_generate_targets(self, readings) ==
    generate_targets(self.files, self.blocks, NowsFor(self, readings))

\* self.execute_rename()
self_execute_rename(self, disk, readings, nanos, fail) ==
    execute_rename(disk, self.files, self.blocks, self.collision,
                   NowsFor(self, readings), nanos, fail)

\* whether the handler panics in generate_targets: it may when a Number
\* block overflows (the build decides)
PanicModes(fl, bs) == IF Panics(fl, bs) THEN BOOLEAN ELSE {FALSE}

\* the history of a handler that panicked in generate_targets
Panicked(op, adv) ==
    [NoCall EXCEPT !.op = op, !.strategy = collision, !.outcome = "Panicked",
                   !.nows = Nows(adv)]

\* the fields "ReName" assigns, r being what execute_rename handed back
Renamed(r, adv) ==
    /\ fs' = r.st.fs
    /\ messages' = r.st.msgs
    /\ last_actions' = IF r.pushed.some THEN Append(last_actions, r.pushed.v)
                       ELSE last_actions
    /\ call' = [NoCall EXCEPT
                   !.op = "execute", !.strategy = collision,
                   !.outcome = r.outcome,
                   !.nows = Nows(adv), !.nanos = Nanos(adv),
                   !.final_paths = r.final_paths,
                   !.resolved = [i \in 1..Len(files) |->
                       Resolve(fs, collision, files[i], r.final_paths[i])],
                   !.robust_map = r.robust_map, !.log = r.st.log]

\* (mutation of ExecuteRename: the list is brought up to date with the disk)
ExecuteRename_RefreshesList ==
    /\ clock < MaxRuns
    /\ \E adv \in 0..MaxTick, fail \in FailSets(3 * Len(files)) :
          Renamed(self_execute_rename(Self, fs, Nows(adv), Nanos(adv), fail),
                  adv)
    /\ files' = [i \in 1..Len(files) |->
                    IF call'.outcome = "Committed" THEN call'.resolved[i]
                    ELSE files[i]]
    /\ clock' = clock + 1
    /\ UNCHANGED <<selected_idx, blocks, collision, use_mtime_for_date>>

\* "ReName"
ExecuteRename ==
    /\ clock < MaxRuns
    /\ \E adv \in 0..MaxTick, fail \in FailSets(3 * Len(files)),
          panic \in PanicModes(files, blocks) :
          IF panic
          THEN /\ call' = Panicked("execute", adv)
               /\ UNCHANGED <<fs, messages, last_actions>>
          ELSE Renamed(self_execute_rename(Self, fs, Nows(adv), Nanos(adv),
                                           fail), adv)
    /\ clock' = clock + 1
    /\ UNCHANGED <<files, selected_idx, blocks, collision, use_mtime_for_date>>

\* preview_table, called for every frame: the names generate_targets returns
Preview ==
    /\ \E adv \in 0..MaxTick, panic \in PanicModes(files, blocks) :
          call' = IF panic THEN Panicked("preview", adv)
                  ELSE [NoCall EXCEPT
                           !.op = "preview", !.outcome = "Returned",
                           !.nows = Nows(adv),
                           !.parts = [i \in 1..Len(files) |->
                               Parts(files, blocks, i,
                                     NowFor(Self, i, Nows(adv)[i]))],
                           !.targets = self_generate_targets(Self, Nows(adv))]
    /\ UNCHANGED <<fs, files, selected_idx, blocks, collision,
                   use_mtime_for_date, last_actions, messages, clock>>

\* "Undo"
Undo ==
    /\ \E order \in (IF last_actions = <<>> THEN {<<>>}
                     ELSE Orders(DOMAIN last_actions[Len(last_actions)])) :
       \E fail \in FailSets(Len(order)) :
          LET r == undo(fs, last_actions, order, fail)
          IN  /\ fs' = r.st.fs
              /\ messages' = r.st.msgs
              /\ last_actions' = r.stack
              /\ call' = [NoCall EXCEPT
                             !.op = "undo", !.fs0 = fs, !.stack0 = last_actions,
                             !.outcome = IF last_actions = <<>> THEN "NoUndo"
                                         ELSE "Undone",
                             !.log = r.st.log,
                             !.after_commit = (call.op = "execute"
                                               /\ call.outcome = "Committed"),
                             !.batch = call.robust_map,
                             !.batch_fs0 = call.fs0]
    /\ UNCHANGED <<files, selected_idx, blocks, collision, use_mtime_for_date,
                   clock>>

Next ==
    \/ AddFiles
    \/ ClearFiles
    \/ MoveUp
    \/ MoveDown
    \/ RemoveSelected
    \/ SetCollision
    \/ ToggleMtime
    \/ ApplyTemplate
    \/ ExecuteRename
    \/ Undo

Spec == Init /\ [][Next]_vars

----------------------------------------------------------------------------
(* Target generation on its own: the file list, the blocks and the flag    *)
(* are drawn, one step is the preview of the names.                        *)

\* names with an extension, without one, hidden, and with two dots
TargetFiles ==
    {Path("p", <<"b", ".", "t", "x", "t">>), Path("p", <<"a", ".", "t", "x", "t">>),
     Path("p", <<"x">>), Path("p", <<".", "h">>),
     Path("p", <<"a", ".", "b", ".", "t">>)}

\* block lists without a Number block other than the default one
TextBlocks ==
    {<<>>, DefaultBlocks, <<Original>>,
     <<Date(<<"%", "S">>)>>, <<Date(<<"%", "Y", "%", "m", "%", "d">>)>>,
     <<Literal(<<"n">>), Date(<<"%", "M", "-", "%", "S">>), Original,
       Date(<<"%", "M", "-", "%", "S">>)>>}

\* greatest width of a drawn Number block
MaxWidth == 4

\* start and step values: small ones and the ends of the integer range
NumberStarts == {IntMin, -10, -1, 0, 1, 99, IntMax}

NumberSteps == {-(2 ^ (IntBits - 2)), -1, 0, 1, 2 ^ (IntBits - 2)}

NumberBlocks ==
    {<<Number(w, st, g)>> : w \in 0..MaxWidth, st \in NumberStarts,
                            g \in NumberSteps}

\* the sequences of 0..n elements of S
ListsUpTo(S, n) == {<<>>} \cup SeqsUpTo(S, n)

InitTargets ==
    /\ fs = InitDisk
    /\ \/ /\ files \in ListsUpTo(TargetFiles, MaxBatch)
          /\ blocks \in TextBlocks
       \/ /\ files \in SeqsUpTo({Path("p", <<"x">>)}, MaxBatch)
          /\ blocks \in NumberBlocks
    /\ selected_idx = NoneIdx
    /\ collision = "Suffix"
    /\ use_mtime_for_date \in BOOLEAN
    /\ last_actions = <<>>
    /\ messages = <<>>
    /\ clock = 0
    /\ call = EmptyCall

SpecTargets == InitTargets /\ [][Preview]_vars

----------------------------------------------------------------------------
(* One batch on its own: the disk is given, the file list, the blocks, the *)
(* strategy and the flag are drawn, one step is one press of "ReName".     *)

\* two directories; names that a template turns into one another
BatchDisk ==
    (Path("p", <<"1", ".", "t">>) :> "A") @@
    (Path("p", <<"3", ".", "t">>) :> "B") @@
    (Path("p", <<"x">>) :> "C") @@
    (Path("p", <<"a", ".", "b">>) :> "D") @@
    (Path("p", <<"y">>) :> "E") @@
    (Path("q", <<"1", ".", "t">>) :> "F")

\* a counter, a counter running down (3, 1: two files swap their names), one
\* name for all files, a name that is on the disk, a date
BatchBlocks ==
    {DefaultBlocks, <<Number(0, 1, 1)>>, <<Number(0, 3, -2)>>,
     <<Literal(<<"a", ".", "b">>)>>, <<Literal(<<"x">>)>>,
     <<Date(<<"%", "S">>), Original>>}

InitBatch ==
    /\ fs = BatchDisk
    /\ files \in ListsUpTo(DOMAIN BatchDisk, MaxBatch)
    /\ blocks \in BatchBlocks
    /\ selected_idx = NoneIdx
    /\ collision \in Strategies
    /\ use_mtime_for_date \in BOOLEAN
    /\ last_actions = <<>>
    /\ messages = <<>>
    /\ clock = MaxRuns - 1
    /\ call = [EmptyCall EXCEPT !.fs0 = BatchDisk]

SpecBatch == InitBatch /\ [][ExecuteRename]_vars

----------------------------------------------------------------------------
(* The file list on its own: a list of up to MaxBatch files is drawn, the   *)
(* steps are the buttons that change the list or the selection.            *)

InitList ==
    /\ fs = BatchDisk
    /\ files \in ListsUpTo(DOMAIN BatchDisk, MaxBatch)
    /\ selected_idx = NoneIdx
    /\ blocks = DefaultBlocks
    /\ collision = "Suffix"
    /\ use_mtime_for_date = TRUE
    /\ last_actions = <<>>
    /\ messages = <<>>
    /\ clock = 0
    /\ call = [EmptyCall EXCEPT !.fs0 = BatchDisk]

NextList ==
    \/ AddFiles
    \/ ClearFiles
    \/ MoveUp
    \/ MoveDown
    \/ RemoveSelected

SpecList == InitList /\ [][NextList]_vars

----------------------------------------------------------------------------
(* Reading the history of the latest handler.                              *)

Batch == call.robust_map

\* the renames of one loop that were attempted, and those that succeeded
Attempts(kind) == {j \in DOMAIN call.log : call.log[j].kind = kind}

Succeeded(kind) == {j \in Attempts(kind) : call.log[j].ok}

RollbackSucceeded == Attempts("rollback") = Succeeded("rollback")

\* the temp paths of the batch that are on the disk
TempsOnDisk == {k \in DOMAIN Batch : Batch[k].tmp \in DOMAIN fs}

\* entry j of the history is the rename src -> dst made by the loop kind
IsRename(j, kind, src, dst) ==
    /\ j \in DOMAIN call.log
    /\ call.log[j].kind = kind
    /\ call.log[j].src = src
    /\ call.log[j].dst = dst

----------------------------------------------------------------------------
(* C2: if temp -> final fails at entry k, then (rollback renames           *)
(* succeeding) every committed entry is moved back from final to origin,   *)
(* every staged entry from temp to origin, and the disk is as before.      *)
C2_Phase2RollbackRestores ==
    (call.op = "execute" /\ call.outcome = "RolledBackB" /\ RollbackSucceeded)
        => /\ fs = call.fs0
           /\ TempsOnDisk = {}

----------------------------------------------------------------------------
(* C3: if origin -> temp fails at entry k (0-indexed), then (rollback      *)
(* renames succeeding) entries 0..k-1 were staged and moved back in        *)
(* reverse order, entries k.. were never moved, no temp file of the batch  *)
(* is on the disk and the disk is exactly as before the call.              *)
C3_Phase1RollbackAtomic ==
    (call.op = "execute" /\ call.outcome = "RolledBackA" /\ RollbackSucceeded)
        => LET k == Cardinality(Attempts("stage"))
           IN  /\ fs = call.fs0
               /\ TempsOnDisk = {}
               /\ Len(call.log) = 2 * k - 1
               /\ \A j \in 1..k :
                      /\ IsRename(j, "stage", Batch[j].orig, Batch[j].tmp)
                      /\ call.log[j].ok <=> j < k
               /\ \A j \in 1..(k - 1) :
                      IsRename(k + j, "rollback", Batch[k - j].tmp,
                               Batch[k - j].orig)
               /\ Attempts("commit") = {}
               /\ last_actions = call.stack0

\* a batch of two whose second origin -> temp rename failed, rolled back
C3_Witness ==
    /\ call.op = "execute"
    /\ call.outcome = "RolledBackA"
    /\ RollbackSucceeded
    /\ Cardinality(Attempts("stage")) = 2
    /\ Cardinality(Succeeded("rollback")) = 1

----------------------------------------------------------------------------
(* C1: round trip.  undo() called right after a batch was committed, with  *)
(* every one of its renames succeeding, puts every file of the batch back  *)
(* under its original path with its own content and leaves neither a temp  *)
(* file nor a final path that was free before the batch.                   *)
C1_UndoRestoresBatch ==
    (/\ call.op = "undo"
     /\ call.after_commit
     /\ \A j \in DOMAIN call.log : call.log[j].kind = "undo" /\ call.log[j].ok)
        => /\ \A k \in DOMAIN call.batch :
                  /\ call.batch[k].orig \in DOMAIN fs
                  /\ fs[call.batch[k].orig] = call.batch_fs0[call.batch[k].orig]
                  /\ call.batch[k].tmp \notin DOMAIN fs
           /\ \A p \in DOMAIN fs : p \in DOMAIN call.batch_fs0

----------------------------------------------------------------------------
(* C4: execute_rename pushes one undo map, origin -> final for exactly the *)
(* entries of the batch, when every rename of a non-empty batch succeeded, *)
(* and pushes nothing otherwise; only undo() takes an entry off the stack. *)
AllRenamesSucceeded(c) ==
    /\ c.robust_map # <<>>
    /\ \A k \in DOMAIN c.robust_map :
          /\ \E j \in DOMAIN c.log :
                 /\ c.log[j].kind = "stage" /\ c.log[j].ok
                 /\ c.log[j].src = c.robust_map[k].orig
          /\ \E j \in DOMAIN c.log :
                 /\ c.log[j].kind = "commit" /\ c.log[j].ok
                 /\ c.log[j].dst = c.robust_map[k].final
    /\ \A j \in DOMAIN c.log : c.log[j].ok

IsUndoMapOf(m, robust_map) ==
    /\ DOMAIN m = {robust_map[k].orig : k \in DOMAIN robust_map}
    /\ \A k \in DOMAIN robust_map : m[robust_map[k].orig] = robust_map[k].final

C4_PushRule ==
    /\ call.op = "execute" =>
          IF AllRenamesSucceeded(call)
          THEN /\ Len(last_actions) = Len(call.stack0) + 1
               /\ SubSeq(last_actions, 1, Len(call.stack0)) = call.stack0
               /\ IsUndoMapOf(last_actions[Len(last_actions)], Batch)
          ELSE last_actions = call.stack0
    /\ call.op = "ui" => last_actions = call.stack0

\* a committed batch whose undo map is pushed on top of an older one
C4_Witness ==
    /\ call.op = "execute"
    /\ AllRenamesSucceeded(call)
    /\ Len(call.stack0) = 1
    /\ Len(last_actions) = 2

----------------------------------------------------------------------------
(* C5: when every file's resolved final path is its origin path, or the    *)
(* list is empty, execute_rename reports "No files to rename", makes no    *)
(* rename at all and leaves the disk and the undo stack as they were.      *)
C5_NoOpBatch ==
    (/\ call.op = "execute"
     /\ \A i \in DOMAIN files : call.resolved[i] = files[i])
        => /\ call.outcome = "Nothing"
           /\ messages = <<"No files to rename">>
           /\ call.log = <<>>
           /\ fs = call.fs0
           /\ last_actions = call.stack0

\* a list of two files, both of them no-ops
C5_Witness ==
    /\ call.op = "execute"
    /\ Len(files) = 2
    /\ \A i \in DOMAIN files : call.resolved[i] = files[i]
    /\ call.outcome = "Nothing"

----------------------------------------------------------------------------
(* C6: under Skip, a file whose desired target exists at planning time and *)
(* differs from its origin is never renamed, is still at its origin when   *)
(* execute_rename returns and is no key of the pushed undo map; the other  *)
(* entries are still processed.                                            *)

\* the files at positions Skip drops: the target exists and is not the origin
Skipped(i) ==
    /\ call.final_paths[i] \in DOMAIN call.fs0
    /\ call.final_paths[i] # files[i]

\* the file at files[i] is left alone by the call
Untouched(i) ==
    /\ \A j \in DOMAIN call.log : call.log[j].src # files[i]
    /\ files[i] \in DOMAIN call.fs0 =>
          files[i] \in DOMAIN fs /\ fs[files[i]] = call.fs0[files[i]]
    /\ call.outcome = "Committed" =>
          files[i] \notin DOMAIN last_actions[Len(last_actions)]

\* every file that is not dropped is an entry of the batch
OthersProcessed ==
    \A i \in DOMAIN files :
        call.resolved[i] # files[i] =>
            \E k \in DOMAIN Batch : /\ Batch[k].orig = files[i]
                                    /\ Batch[k].final = call.resolved[i]

\* the claim as stated: of every file of the list
C6_SkipLeavesFile ==
    (call.op = "execute" /\ call.strategy = "Skip")
        => /\ \A i \in DOMAIN files : Skipped(i) => Untouched(i)
           /\ OthersProcessed

\* the claim as amended: of every file that no other position of the list
\* names again with a target that is kept
C6_SkipLeavesFileListedOnce ==
    (call.op = "execute" /\ call.strategy = "Skip")
        => /\ \A i \in DOMAIN files :
                  (/\ Skipped(i)
                   /\ \A i2 \in DOMAIN files \ {i} :
                          files[i2] = files[i] => call.resolved[i2] = files[i2])
                      => Untouched(i)
           /\ OthersProcessed

\* a committed Skip batch that dropped one file and renamed another
C6_Witness ==
    /\ call.op = "execute"
    /\ call.strategy = "Skip"
    /\ call.outcome = "Committed"
    /\ \E i \in DOMAIN files : Skipped(i) /\ files[i] \in DOMAIN call.fs0
    /\ \E i \in DOMAIN files : call.resolved[i] # files[i]

----------------------------------------------------------------------------
(* C8: undo() on a non-empty stack pops exactly the entry pushed last      *)
(* (whether or not its reversals succeed) and attempts final -> origin for *)
(* each of its pairs; on an empty stack it reports "No actions to undo."   *)
(* and changes neither the disk nor the stack.                             *)
C8_UndoLastInFirstOut ==
    call.op = "undo" =>
        IF call.stack0 = <<>>
        THEN /\ fs = call.fs0
             /\ last_actions = <<>>
             /\ call.log = <<>>
             /\ messages = <<"No actions to undo.">>
        ELSE LET m == call.stack0[Len(call.stack0)]
             IN  /\ last_actions = SubSeq(call.stack0, 1, Len(call.stack0) - 1)
                 /\ Len(call.log) = Cardinality(DOMAIN m)
                 /\ \A o \in DOMAIN m :
                        \E j \in DOMAIN call.log : /\ call.log[j].src = m[o]
                                                   /\ call.log[j].dst = o

\* the newer of two undo maps popped, with a reversal that failed
C8_Witness ==
    /\ call.op = "undo"
    /\ Len(call.stack0) = 2
    /\ Len(last_actions) = 1
    /\ \E j \in DOMAIN call.log : ~call.log[j].ok

----------------------------------------------------------------------------
(* C9: in one undo() pass a pair whose final file is missing, or whose     *)
(* rename fails, is reported and skipped; every pair whose final file      *)
(* exists when its turn comes is still moved back from final to origin.    *)

\* the disk after the first j renames of a history
RECURSIVE DiskAfter(_, _, _)
DiskAfter(disk, log, j) ==
    IF j = 0 THEN disk
    ELSE LET d == DiskAfter(disk, log, j - 1)
         IN  IF log[j].ok THEN Move(d, log[j].src, log[j].dst) ELSE d

\* the reports of the pairs of a history, from pair j on
RECURSIVE Reports(_, _)
Reports(log, j) ==
    IF j > Len(log) THEN <<>>
    ELSE (IF log[j].kind = "missing" THEN <<"Cannot undo, final file missing">>
          ELSE IF ~log[j].ok THEN <<"Failed to undo">> ELSE <<>>)
         \o Reports(log, j + 1)

C9_PartialUndo ==
    (call.op = "undo" /\ call.stack0 # <<>>)
        => /\ Len(call.log) = Cardinality(DOMAIN call.stack0[Len(call.stack0)])
           /\ \A j \in DOMAIN call.log :
                  LET d == DiskAfter(call.fs0, call.log, j - 1)
                  IN  /\ call.log[j].kind = "undo" <=> call.log[j].src \in DOMAIN d
                      /\ call.log[j].kind = "missing" <=> call.log[j].src \notin DOMAIN d
                      /\ call.log[j].kind = "missing" => ~call.log[j].ok
           /\ fs = DiskAfter(call.fs0, call.log, Len(call.log))
           /\ messages = Reports(call.log, 1) \o <<"Undo attempted.">>

\* a pass in which a pair could not be reversed and a later pair was
C9_Witness ==
    /\ call.op = "undo"
    /\ \E j, k \in DOMAIN call.log :
          /\ j < k
          /\ ~call.log[j].ok
          /\ call.log[k].kind = "undo" /\ call.log[k].ok
          /\ call.fs0[call.log[k].src] = fs[call.log[k].dst]

----------------------------------------------------------------------------
(* C10: within one execute_rename no temp -> final rename is attempted     *)
(* until origin -> temp has succeeded for every entry of the batch, none   *)
(* at all once an origin -> temp rename has failed, and a call on a        *)
(* non-empty batch ends committed or rolled back.                          *)
C10_PhaseOrdering ==
    (call.op = "execute" /\ Batch # <<>>)
        => /\ call.outcome \in {"Committed", "RolledBackA", "RolledBackB"}
           /\ \A j \in Attempts("commit") :
                  Cardinality({i \in Succeeded("stage") : i < j}) = Len(Batch)
           /\ Attempts("stage") # Succeeded("stage") => Attempts("commit") = {}
           /\ call.outcome = "RolledBackA" <=>
                  Attempts("stage") # Succeeded("stage")
           /\ call.outcome = "RolledBackB" <=>
                  Attempts("commit") # Succeeded("commit")
           /\ call.outcome = "Committed" <=>
                  /\ Cardinality(Succeeded("stage")) = Len(Batch)
                  /\ Cardinality(Succeeded("commit")) = Len(Batch)
           /\ call.outcome = "Committed" => Attempts("rollback") = {}

\* a batch of two whose second origin -> temp rename failed
C10_Witness ==
    /\ call.op = "execute"
    /\ Len(Batch) = 2
    /\ Cardinality(Succeeded("stage")) = 1
    /\ Cardinality(Attempts("stage")) = 2
    /\ Attempts("commit") = {}

----------------------------------------------------------------------------
(* Collision resolution as a function of the desired path and the disk:    *)
(* the desired name and the disk are drawn, one step resolves the name.    *)

\* names split where the claim puts the suffix: before the extension, and at
\* the end of a name without one (a name that only starts with "." has none)
ProbeCases ==
    {[pre |-> <<"x">>, post |-> <<".", "t">>],
     [pre |-> <<"x">>, post |-> <<>>],
     [pre |-> <<".", "x">>, post |-> <<>>],
     [pre |-> <<"a", ".", "b">>, post |-> <<".", "t">>],
     [pre |-> <<"x">>, post |-> <<".">>]}

\* candidate n of a case, written out: pre, " (n)", post
Numbered(c, n) == Path("p", c.pre \o <<" ", "(", DigitChars[n + 1], ")">> \o c.post)

Unnumbered(c) == Path("p", c.pre \o c.post)

InitResolve ==
    /\ \E c \in ProbeCases :
       \E disk \in SUBSET ({Unnumbered(c)} \cup {Numbered(c, n) : n \in 1..MaxProbe}) :
           /\ files = <<Unnumbered(c)>>
           /\ fs = [p \in disk |-> "A"]
    /\ selected_idx = NoneIdx
    /\ blocks = DefaultBlocks
    /\ collision = "Suffix"
    /\ use_mtime_for_date = TRUE
    /\ last_actions = <<>>
    /\ messages = <<>>
    /\ clock = 0
    /\ call = EmptyCall

\* the collision match of the robust_map loop on the drawn name
ResolveDesired ==
    /\ call.op = "ui"
    /\ call' = [call EXCEPT !.op = "resolve", !.strategy = collision,
                            !.resolved = <<Resolve(fs, collision, files[1], files[1])>>]
    /\ UNCHANGED <<fs, files, selected_idx, blocks, collision,
                   use_mtime_for_date, last_actions, messages, clock>>

SpecResolve == InitResolve /\ [][ResolveDesired]_vars

----------------------------------------------------------------------------
(* C7: under Suffix an existing desired path resolves to the desired name  *)
(* with " (n)" put right before the extension (at the end of a name        *)
(* without one), n the smallest integer >= 1 whose candidate does not      *)
(* exist; a desired path that does not exist is returned unchanged.        *)
C7_SuffixResolution ==
    call.op = "resolve" =>
        LET c == CHOOSE x \in ProbeCases : Unnumbered(x) = files[1]
            r == call.resolved[1]
        IN  IF files[1] \notin DOMAIN fs THEN r = files[1]
            ELSE \E n \in 1..(MaxProbe + 1) :
                    /\ r = Numbered(c, n)
                    /\ r \notin DOMAIN fs
                    /\ \A m \in 1..(n - 1) : Numbered(c, m) \in DOMAIN fs

\* x.t and "x (1).t" exist, and x.t resolves to "x (2).t"
C7_Witness ==
    /\ call.op = "resolve"
    /\ files[1] = Path("p", <<"x", ".", "t">>)
    /\ Path("p", <<"x", " ", "(", "1", ")", ".", "t">>) \in DOMAIN fs
    /\ call.resolved[1] = Path("p", <<"x", " ", "(", "2", ")", ".", "t">>)

----------------------------------------------------------------------------
(* C11: within one generate_targets call the Date blocks do not vary per   *)
(* file: a Date block expands to the same string for every file of the     *)
(* list, even if the clock advances while the list is processed.           *)
C11_DateSameForAllFiles ==
    (call.op = "preview" /\ call.outcome = "Returned")
        => \A i, j \in DOMAIN files, k \in DOMAIN blocks :
               blocks[k].type = "Date" => call.parts[i][k] = call.parts[j][k]

----------------------------------------------------------------------------
(* C12: the name generated for the file at position i is the expansions of *)
(* all blocks, concatenated left to right in block order (a Literal gives  *)
(* its text, Original the file's stem without the extension), followed by  *)
(* "." and the file's extension when it has one.                           *)

\* the sequences of ss, written one after the other
RECURSIVE Concat(_)
Concat(ss) ==
    IF ss = <<>> THEN <<>>
    ELSE Concat(SubSeq(ss, 1, Len(ss) - 1)) \o ss[Len(ss)]

\* a name has an extension when its last dot is not its first character
HasExtension(name) == LastDot(name) > 1

StemOf(name) ==
    IF HasExtension(name) THEN SubSeq(name, 1, LastDot(name) - 1) ELSE name

DotExtensionOf(name) ==
    IF HasExtension(name) THEN SubSeq(name, LastDot(name), Len(name)) ELSE <<>>

C12_TargetComposition ==
    (call.op = "preview" /\ call.outcome = "Returned")
        => \A i \in DOMAIN files :
               /\ Len(call.parts[i]) = Len(blocks)
               /\ \A k \in DOMAIN blocks :
                      /\ blocks[k].type = "Literal"
                             => call.parts[i][k] = blocks[k].text
                      /\ blocks[k].type = "Original"
                             => call.parts[i][k] = StemOf(files[i].name)
               /\ call.targets[i] =
                      Concat(call.parts[i]) \o DotExtensionOf(files[i].name)

\* [Number{4,1,1}, Literal("_"), Original] over [b.txt, a.txt] gives
\* ["0001_b.txt", "0002_a.txt"]
C12_Witness ==
    /\ call.op = "preview"
    /\ blocks = DefaultBlocks
    /\ files = <<Path("p", <<"b", ".", "t", "x", "t">>),
                 Path("p", <<"a", ".", "t", "x", "t">>)>>
    /\ call.targets = <<<<"0", "0", "0", "1", "_", "b", ".", "t", "x", "t">>,
                        <<"0", "0", "0", "2", "_", "a", ".", "t", "x", "t">>>>

----------------------------------------------------------------------------
(* C13: generate_targets returns exactly one name per file, in the order   *)
(* of the file list, for every file list and block list (the empty block   *)
(* list too): element i is the name of file i.                             *)
C13_OneTargetPerFile ==
    (call.op = "preview" /\ call.outcome = "Returned")
        => /\ Len(call.targets) = Len(files)
           /\ \A i \in DOMAIN files :
                  call.targets[i] =
                      Concat(call.parts[i]) \o DotExtensionOf(files[i].name)
           /\ \A i \in DOMAIN files, k \in DOMAIN blocks :
                  blocks[k].type = "Original"
                      => call.parts[i][k] = StemOf(files[i].name)

\* three files and no block at all: three names, the bare extensions
C13_Witness ==
    /\ call.op = "preview"
    /\ call.outcome = "Returned"
    /\ blocks = <<>>
    /\ Len(files) = MaxBatch
    /\ Len(call.targets) = MaxBatch

----------------------------------------------------------------------------
(* C14: a Number block gives, for the file at 0-based position i, the      *)
(* value start + i * step as a signed decimal, padded with zeros to width  *)
(* characters when shorter (the minus sign counted), unpadded otherwise,   *)
(* for all start, step and i for which start + i * step is in the integer  *)
(* range.                                                                  *)

\* the number a sequence of digits denotes
RECURSIVE DigitsValue(_)
DigitsValue(ds) ==
    IF ds = <<>> THEN 0
    ELSE 10 * DigitsValue(SubSeq(ds, 1, Len(ds) - 1))
         + (CHOOSE d \in 0..9 : DigitChars[d + 1] = ds[Len(ds)])

\* the number of digits of n >= 0
RECURSIVE DigitCount(_)
DigitCount(n) == IF n < 10 THEN 1 ELSE 1 + DigitCount(n \div 10)

\* s renders val as a signed decimal, zero-padded to width when shorter
IsRendering(s, val, width) ==
    LET body     == IF val < 0 THEN Tail(s) ELSE s
        abs      == IF val < 0 THEN -val ELSE val
        unpadded == DigitCount(abs) + (IF val < 0 THEN 1 ELSE 0)
    IN  /\ s # <<>>
        /\ val < 0 <=> s[1] = "-"
        /\ body # <<>>
        /\ \A j \in DOMAIN body : \E d \in 0..9 : DigitChars[d + 1] = body[j]
        /\ DigitsValue(body) = abs
        /\ Len(s) = IF unpadded < width THEN width ELSE unpadded

\* the block list is one Number block and no file has an extension
OnlyNumber ==
    /\ Len(blocks) = 1
    /\ blocks[1].type = "Number"
    /\ \A i \in DOMAIN files : ~HasExtension(files[i].name)

\* the value of the block for the file at 1-based position i
NumberValue(i) == blocks[1].start + (i - 1) * blocks[1].step

C14_NumberRendering ==
    (/\ call.op = "preview"
     /\ OnlyNumber
     /\ \A i \in DOMAIN files : NumberValue(i) \in IntMin..IntMax)
        => /\ call.outcome = "Returned"
           /\ \A i \in DOMAIN files :
                  IsRendering(call.targets[i], NumberValue(i), blocks[1].width)

----------------------------------------------------------------------------
(* C15: in every batch the temp paths of distinct entries are pairwise     *)
(* different, and the temp path of an entry lies in the directory of the   *)
(* entry's origin.                                                         *)
C15_TempPaths ==
    call.op = "execute"
        => \A j, k \in DOMAIN Batch :
               /\ Batch[j].tmp.dir = Batch[j].orig.dir
               /\ j # k => Batch[j].tmp # Batch[k].tmp

\* a batch with entries in two directories, made while the clock stood still
C15_Witness ==
    /\ call.op = "execute"
    /\ Len(Batch) = MaxBatch
    /\ \E j, k \in DOMAIN Batch : Batch[j].orig.dir # Batch[k].orig.dir
    /\ \A i \in DOMAIN call.nanos : call.nanos[i] = call.nanos[1]

----------------------------------------------------------------------------
(* C16: under every strategy a batch has no entry whose resolved final     *)
(* path is its origin; such a file is never staged, never renamed and not  *)
(* recorded in the undo map, while the other entries are still executed.   *)

\* the file at position i is a no-op: its resolved final path is its origin
NoOp(i) == call.resolved[i] = files[i]

\* no rename of the call takes the path files[i] as its source, and the
\* pushed undo map has no pair for it
NotRenamed(i) ==
    /\ \A j \in DOMAIN call.log : call.log[j].src # files[i]
    /\ \A k \in DOMAIN Batch : Batch[k].orig # files[i]
    /\ call.outcome = "Committed" =>
          files[i] \notin DOMAIN last_actions[Len(last_actions)]

\* the claim as stated: of every file of the list
C16_NoOpFiltered ==
    (call.op = "execute" /\ call.outcome # "Panicked")
        => /\ \A k \in DOMAIN Batch : Batch[k].final # Batch[k].orig
           /\ \A i \in DOMAIN files : NoOp(i) => NotRenamed(i)
           /\ OthersProcessed

\* the claim as amended: of every file that no other position of the list
\* names again with a final path that is kept
C16_NoOpFilteredListedOnce ==
    (call.op = "execute" /\ call.outcome # "Panicked")
        => /\ \A k \in DOMAIN Batch : Batch[k].final # Batch[k].orig
           /\ \A i \in DOMAIN files :
                  (/\ NoOp(i)
                   /\ \A i2 \in DOMAIN files \ {i} :
                          files[i2] = files[i] => NoOp(i2))
                      => NotRenamed(i)
           /\ OthersProcessed

\* a committed Overwrite batch with a no-op file and a renamed one
C16_Witness ==
    /\ call.op = "execute"
    /\ call.strategy = "Overwrite"
    /\ call.outcome = "Committed"
    /\ \E i \in DOMAIN files : NoOp(i) /\ NotRenamed(i)
    /\ \E i \in DOMAIN files : ~NoOp(i)

----------------------------------------------------------------------------
(* C17: Suffix probing is capped: the resolver tries a bounded number of   *)
(* " (n)" candidates and, when none of them is free, stops with a distinct *)
(* CollisionUnresolved error.  Stated here for the cap MaxProbe: the       *)
(* resolved path is the desired one, or one of the first MaxProbe          *)
(* candidates, or the call reports CollisionUnresolved.                    *)
C17_ProbingCapped ==
    call.op = "resolve" =>
        LET c == CHOOSE x \in ProbeCases : Unnumbered(x) = files[1]
        IN  \/ call.outcome = "CollisionUnresolved"
            \/ call.resolved[1] = files[1]
            \/ \E n \in 1..MaxProbe : call.resolved[1] = Numbered(c, n)

----------------------------------------------------------------------------
(* C18: execute_rename and undo leave the file list (paths and order) and  *)
(* selected_idx as they were, whether the batch commits, is rolled back or *)
(* is empty: after a committed batch the list still holds the origins.     *)
C18_ListUntouched ==
    [][call'.op \in {"execute", "undo"}
           => /\ files' = files
              /\ selected_idx' = selected_idx]_vars

\* a committed batch with a row selected: the list names paths that are gone
C18_Witness ==
    /\ call.op = "execute"
    /\ call.outcome = "Committed"
    /\ selected_idx # NoneIdx
    /\ \E i \in DOMAIN files : files[i] \notin DOMAIN fs

----------------------------------------------------------------------------
(* C19: the use_mtime_for_date flag is never consulted. The latest press   *)
(* of "ReName" is run again with the other value of the flag and with the  *)
(* same files, blocks, strategy, clock readings, disk and refused renames. *)

\* self with the other value of the flag
OtherFlag == [Self EXCEPT !.use_mtime_for_date = ~use_mtime_for_date]

\* the rename calls the system refused or could not make in the latest handler
Refused == {j \in DOMAIN call.log : ~call.log[j].ok}

\* r is what the latest press of "ReName" handed back and left behind
SameRun(r) ==
    /\ r.outcome = call.outcome
    /\ r.final_paths = call.final_paths
    /\ r.robust_map = call.robust_map
    /\ r.st.log = call.log
    /\ r.st.fs = fs
    /\ r.st.msgs = messages
    /\ r.pushed = IF Len(last_actions) > Len(call.stack0)
                  THEN Some(last_actions[Len(last_actions)]) ELSE None

\* C19: a run of generate_targets and of execute_rename that differs from
\* the latest one only in the value of use_mtime_for_date returns the same
\* targets, and ends with the same outcome, batch, rename calls, disk,
\* messages and undo stack.
C19_FlagNeverConsulted ==
    call.op = "execute" =>
        /\ self_generate_targets(OtherFlag, call.nows)
               = self_generate_targets(Self, call.nows)
        /\ call.outcome # "Panicked" =>
               SameRun(self_execute_rename(OtherFlag, call.fs0, call.nows,
                                           call.nanos, Refused))

\* a committed batch whose names hold a Date block, run with the flag set
\* at a clock reading that is not the files' modification time
C19_Witness ==
    /\ call.op = "execute"
    /\ call.outcome = "Committed"
    /\ use_mtime_for_date
    /\ \E k \in DOMAIN blocks : blocks[k].type = "Date"
    /\ \E i \in DOMAIN call.nows : call.nows[i] # Mtime

----------------------------------------------------------------------------
(* C20: staging lets the entries of a batch claim each other's names.      *)

\* the final path of an entry of the batch is the origin of another entry
ClaimsOrigin ==
    \E j, k \in DOMAIN Batch : j # k /\ Batch[j].final = Batch[k].orig

\* every rename the latest handler attempted succeeded
EveryRenameSucceeded == \A j \in DOMAIN call.log : call.log[j].ok

\* the final paths of the batch are pairwise different
DistinctFinals ==
    \A j, k \in DOMAIN Batch : Batch[j].final = Batch[k].final => j = k

\* the batch is committed, every file of the batch is under its final path
\* with the content it had under its origin, and no temp file is left
ContentsAtFinals ==
    /\ call.outcome = "Committed"
    /\ \A k \in DOMAIN Batch :
          /\ Batch[k].final \in DOMAIN fs
          /\ fs[Batch[k].final] = call.fs0[Batch[k].orig]
    /\ TempsOnDisk = {}

\* C20: under Overwrite, when the final path of a batch entry is the origin
\* path of another entry of the batch and every rename succeeds, the batch
\* commits with the content of every batch file at its own final path: none
\* is lost or clobbered.
C20_StagedSwap ==
    (/\ call.op = "execute"
     /\ call.strategy = "Overwrite"
     /\ ClaimsOrigin
     /\ EveryRenameSucceeded)
        => ContentsAtFinals

\* C20 (amended): the same, for a batch whose final paths are pairwise
\* different.
C20_StagedSwapDistinctFinals ==
    (/\ call.op = "execute"
     /\ call.strategy = "Overwrite"
     /\ ClaimsOrigin
     /\ DistinctFinals
     /\ EveryRenameSucceeded)
        => ContentsAtFinals

\* two files have swapped their names: each one's content is under the
\* other's origin path
C20_Witness ==
    /\ call.op = "execute"
    /\ call.strategy = "Overwrite"
    /\ call.outcome = "Committed"
    /\ Len(Batch) >= 2
    /\ Batch[1].final = Batch[2].orig
    /\ Batch[2].final = Batch[1].orig
    /\ fs[Batch[1].orig] = call.fs0[Batch[2].orig]
    /\ fs[Batch[2].orig] = call.fs0[Batch[1].orig]

----------------------------------------------------------------------------
(* C21: under Skip and Suffix a committed batch destroys no file.          *)

\* the temp -> final renames of the latest handler whose final path held a
\* file when the rename ran
OccupiedCommits ==
    {j \in Attempts("commit") :
        call.log[j].dst \in DOMAIN DiskAfter(call.fs0, call.log, j - 1)}

\* C21: under the Skip and Suffix strategies, the final paths of a
\* committed batch are pairwise different, none holds a file when its
\* temp -> final rename runs, and the disk holds as many files after the
\* batch as before.
C21_NoFileDestroyed ==
    (/\ call.op = "execute"
     /\ call.strategy \in {"Skip", "Suffix"}
     /\ call.outcome = "Committed")
        => /\ DistinctFinals
           /\ OccupiedCommits = {}
           /\ Cardinality(DOMAIN fs) = Cardinality(DOMAIN call.fs0)

----------------------------------------------------------------------------
(* C22: the disk undo() leaves does not depend on the order in which the   *)
(* hash map yields the pairs of the popped mapping.                        *)

\* the disk undo() leaves when the pairs of the popped mapping are taken in
\* the given order and the system refuses no rename
UndoneDisk(order) == undo(call.fs0, call.stack0, order, {}).st.fs

\* C22: when undo() reverses a batch that was just committed and the system
\* refuses none of its renames, every order of the pairs of the popped
\* mapping leaves the disk this call left.
C22_UndoOrderIndependent ==
    (/\ call.op = "undo"
     /\ call.after_commit
     /\ \A j \in DOMAIN call.log : call.log[j].kind = "undo" => call.log[j].ok)
        => \A order \in Orders(DOMAIN call.stack0[Len(call.stack0)]) :
               UndoneDisk(order) = fs

----------------------------------------------------------------------------
(* C23: the selection and the buttons of the file list.                    *)

\* the number of positions of the list fl that hold the path p
Occurrences(fl, p) == Cardinality({k \in DOMAIN fl : fl[k] = p})

\* the list after the step holds the entries it held before
SameEntries ==
    /\ Len(files') = Len(files)
    /\ \A k \in DOMAIN files : Occurrences(files', files[k]) = Occurrences(files, files[k])

\* the step exchanged the entries at the positions i and j (from 1) and left
\* the others in place
Exchanged(i, j) ==
    /\ Len(files') = Len(files)
    /\ files'[i] = files[j]
    /\ files'[j] = files[i]
    /\ \A k \in DOMAIN files \ {i, j} : files'[k] = files[k]

\* selected_idx is None or an index into files
SelectionValid == selected_idx = NoneIdx \/ selected_idx \in 0..(Len(files) - 1)

\* move_up on the entry at position i (from 1): exchanged with the entry
\* above and still selected, or left alone at the first position
MovedUp ==
    \E i \in DOMAIN files :
        /\ SameEntries
        /\ IF i = 1 THEN files' = files /\ selected_idx' = 0
           ELSE Exchanged(i, i - 1) /\ selected_idx' = i - 2
        /\ files'[selected_idx' + 1] = files[i]

\* move_down on the entry at position i (from 1): exchanged with the entry
\* below and still selected, or left alone at the last position
MovedDown ==
    \E i \in DOMAIN files :
        /\ SameEntries
        /\ IF i = Len(files) THEN files' = files /\ selected_idx' = i - 1
           ELSE Exchanged(i, i + 1) /\ selected_idx' = i
        /\ files'[selected_idx' + 1] = files[i]

\* remove_selected on the entry at position i (from 1): that entry is gone,
\* the others keep their order, nothing is selected
Removed ==
    \E i \in DOMAIN files :
        /\ Len(files') = Len(files) - 1
        /\ \A k \in 1..(i - 1) : files'[k] = files[k]
        /\ \A k \in i..(Len(files) - 1) : files'[k] = files[k + 1]
        /\ selected_idx' = NoneIdx

\* C23: after any sequence of add_files, move_up, move_down, remove_selected
\* and clear, selected_idx is None or a valid index into files; move_up and
\* move_down only swap the selected entry with its neighbour (the list stays
\* a permutation of itself, the selection follows the moved file, nothing
\* changes at the first / last position), and remove_selected removes
\* exactly the selected entry and clears the selection.
C23_SelectionAndMoves ==
    /\ []SelectionValid
    /\ [][/\ MoveUp => MovedUp
          /\ MoveDown => MovedDown
          /\ RemoveSelected => Removed]_vars

\* the middle entry of a list of three different files is selected: it was
\* moved there from the first or from the last position
C23_Witness ==
    /\ Len(files) = MaxBatch
    /\ selected_idx = 1
    /\ \A j, k \in DOMAIN files : files[j] = files[k] => j = k

====
